---- MODULE Spec2Model ----
(***************************************************************************)
(* Model of patches/apply-vllm-pr31607.py: four patch functions, each      *)
(* rewriting one file of a vLLM tree by literal / regex replacement, and   *)
(* main(), which calls them in order and derives the exit status.          *)
(*                                                                         *)
(* File contents are sequences of text fragments.  Every string constant   *)
(* of the script is written as the sequence of fragments it is made of,    *)
(* so that the substring relations between the script's search texts,      *)
(* replacement texts and markers are those of the real strings:            *)
(*   - a replacement that contains its own search text (w8a8_utils,        *)
(*     matcher_utils) contains the search fragment;                        *)
(*   - a replacement that contains a marker contains the marker fragment.  *)
(***************************************************************************)
EXTENDS Integers, Sequences, FiniteSets, TLC

\* ------------------------------------------------------------------ bounds
\* total number of text fragments in the four target files of the tree
MaxTokens == 2
\* number of times the script is invoked on the same tree
MaxRuns == 3
\* number of target files that cannot be opened for reading / writing
MaxFaults == 1

\* ------------------------------------------------------- string operations
\* `pat in s`
In(pat, s) ==
  \E i \in 1..(Len(s) - Len(pat) + 1) : SubSeq(s, i, i + Len(pat) - 1) = pat

\* s.find(pat) + 1, or 0 when pat does not occur
Find(pat, s) ==
  IF In(pat, s)
  THEN CHOOSE i \in 1..(Len(s) - Len(pat) + 1) :
         /\ SubSeq(s, i, i + Len(pat) - 1) = pat
         /\ \A j \in 1..(i - 1) : SubSeq(s, j, j + Len(pat) - 1) # pat
  ELSE 0

\* s.replace(pat, rep): every non-overlapping occurrence, leftmost first;
\* the replacement text is not rescanned
RECURSIVE Replace(_, _, _)
Replace(s, pat, rep) ==
  LET i == Find(pat, s)
  IN IF i = 0 THEN s
     ELSE SubSeq(s, 1, i - 1) \o rep
            \o Replace(SubSeq(s, i + Len(pat), Len(s)), pat, rep)

\* re.search(pattern, s) for the pattern r'< \(11, 0\)', which matches
\* exactly the literal text '< (11, 0)'
reSearch(pat, s) == In(pat, s)

\* re.sub(pattern, repl, s) for the same pattern: every non-overlapping
\* match, leftmost first
reSub(pat, rep, s) == Replace(s, pat, rep)

\* s.split(pat)[0]: the text before the first occurrence of pat
SplitHead(s, pat) ==
  LET i == Find(pat, s) IN IF i = 0 THEN s ELSE SubSeq(s, 1, i - 1)

\* s.split('\n')[-1]: the text after the last newline
LastLine(s) ==
  IF \E i \in 1..Len(s) : s[i] = "\n"
  THEN LET k == CHOOSE i \in 1..Len(s) :
                  s[i] = "\n" /\ \A j \in (i + 1)..Len(s) : s[j] # "\n"
       IN SubSeq(s, k + 1, Len(s))
  ELSE s

\* number of occurrences of pat in s (overlapping occurrences included)
Count(pat, s) ==
  Cardinality({i \in 1..(Len(s) - Len(pat) + 1) :
                 SubSeq(s, i, i + Len(pat) - 1) = pat})

\* ------------------------------------------------ patch_custom_ops strings
custom_ops_marker == <<"cutlass_scaled_mm_supports_fp8 unavailable">>
custom_ops_old == <<"def supports_fp8: return supports_fp8(cap)">>
custom_ops_new ==
  <<"def supports_fp8: try: return supports_fp8(cap) except: warn(",
    "cutlass_scaled_mm_supports_fp8 unavailable",
    ": {e}) return False">>
custom_ops_old2 == <<"def supports_block_fp8: return supports_block_fp8(cap)">>
custom_ops_new2 ==
  <<"def supports_block_fp8: try: return supports_block_fp8(cap) except: warn(cutlass_scaled_mm_supports_block_fp8 unavailable: {e}) return False">>

\* ----------------------------------------------------- patch_mxfp4 strings
mxfp4_marker == <<"<= (12, 1)">>
mxfp4_old_pattern == <<"< (11, 0)">>
mxfp4_new_pattern == <<"<= (12, 1)">>

\* ------------------------------------------------ patch_w8a8_utils strings
w8a8_marker1 == <<"CUTLASS_FP8_SUPPORTED = False">>
w8a8_marker2 == <<"except Exception">>
w8a8_old == <<"CUTLASS_FP8_SUPPORTED = cutlass_fp8_supported()">>
w8a8_new ==
  <<"try:", "CUTLASS_FP8_SUPPORTED = cutlass_fp8_supported()",
    "except Exception", "CUTLASS_FP8_SUPPORTED = False">>
w8a8_old2 == <<"CUTLASS_BLOCK_FP8_SUPPORTED = cutlass_block_fp8_supported()">>
w8a8_new2 ==
  <<"try:", "CUTLASS_BLOCK_FP8_SUPPORTED = cutlass_block_fp8_supported()",
    "except Exception", "CUTLASS_BLOCK_FP8_SUPPORTED = False">>

\* --------------------------------------------- patch_matcher_utils strings
\* the marker 'hasattr(torch.ops._C, "silu_and_mul")' occurs inside the
\* fragment that the SILU_MUL_OP replacement appends
matcher_marker == <<" if hasattr(_C, silu_and_mul) else None">>
matcher_old == <<"SILU_MUL_OP = silu_and_mul.default">>
matcher_new ==
  <<"SILU_MUL_OP = silu_and_mul.default",
    " if hasattr(_C, silu_and_mul) else None">>
fp8_patterns ==
  << << <<"static_scaled_fp8_quant.default">>,
        <<"static_scaled_fp8_quant.default",
          " if hasattr(_C, static_scaled_fp8_quant) else None">> >>,
     << <<"dynamic_scaled_fp8_quant.default">>,
        <<"dynamic_scaled_fp8_quant.default",
          " if hasattr(_C, dynamic_scaled_fp8_quant) else None">> >>,
     << <<"dynamic_per_token_scaled_fp8_quant.default">>,
        <<"dynamic_per_token_scaled_fp8_quant.default",
          " if hasattr(_C, dynamic_per_token_scaled_fp8_quant) else None">> >> >>

\* the fragments whose text contains 'hasattr'
HasattrFragments ==
  {" if hasattr(_C, silu_and_mul) else None",
   " if hasattr(_C, static_scaled_fp8_quant) else None",
   " if hasattr(_C, dynamic_scaled_fp8_quant) else None",
   " if hasattr(_C, dynamic_per_token_scaled_fp8_quant) else None"}

\* `'hasattr' in s`
HasHasattr(s) == \E i \in 1..Len(s) : s[i] \in HasattrFragments


\* ------------------------------------------------------------- file system
custom_ops_filepath == "vllm/_custom_ops.py"
\* variant: the path of w8a8_utils.py pasted into patch_mxfp4
mxfp4_filepath_wrong ==
  "vllm/model_executor/layers/quantization/utils/w8a8_utils.py"

mxfp4_filepath == "vllm/model_executor/layers/quantization/mxfp4.py"
w8a8_filepath == "vllm/model_executor/layers/quantization/utils/w8a8_utils.py"
matcher_filepath == "vllm/compilation/matcher_utils.py"

Paths == {"vllm/_custom_ops.py",
          "vllm/model_executor/layers/quantization/mxfp4.py",
          "vllm/model_executor/layers/quantization/utils/w8a8_utils.py",
          "vllm/compilation/matcher_utils.py"}

\* os.path.exists(filepath)
Exists(f) == f.exists

\* open(filepath, 'r') raises (the path exists but cannot be opened for
\* reading); the exception is not caught anywhere in the script
ReadRaises(f) == f.fault = "read"

\* open(filepath, 'w') raises before the file is truncated (read-only file)
WriteRaises(f) == f.fault = "write"

\* ---------------------------------------------------- the patch functions
\* Each patch function maps the state of the file at its filepath to
\*   raised  : an exception left the function
\*   ret     : the value returned (meaningless when raised)
\*   file    : the state of the file afterwards
\*   branch  : which message family was printed
\*   matched : the rules that printed PATCHED
\*   reads / writes : completed f.read() / f.write() calls
Missing(f) ==
  [raised |-> FALSE, ret |-> FALSE, file |-> f, branch |-> "missing",
   matched |-> {}, reads |-> 0, writes |-> 0]

ReadError(f) ==
  [raised |-> TRUE, ret |-> FALSE, file |-> f, branch |-> "ioerror",
   matched |-> {}, reads |-> 0, writes |-> 0]

AlreadyPatched(f) ==
  [raised |-> FALSE, ret |-> TRUE, file |-> f, branch |-> "already",
   matched |-> {}, reads |-> 1, writes |-> 0]

\* with open(filepath, 'w') as f: f.write(content); return True
WriteBack(f, content, matched) ==
  IF WriteRaises(f)
  THEN [raised |-> TRUE, ret |-> FALSE, file |-> f, branch |-> "ioerror",
        matched |-> matched, reads |-> 1, writes |-> 0]
  ELSE [raised |-> FALSE, ret |-> TRUE,
        file |-> [f EXCEPT !.content = content], branch |-> "rewrote",
        matched |-> matched, reads |-> 1, writes |-> 1]

\* variant: the check looks for the text of the second replacement
custom_ops_already_wrong(content) == In(custom_ops_new2, content)

\* 'cutlass_scaled_mm_supports_fp8 unavailable' in content
custom_ops_already(content) == In(custom_ops_marker, content)

patch_custom_ops(f) ==
  IF ~Exists(f) THEN Missing(f)
  ELSE IF ReadRaises(f) THEN ReadError(f)
  ELSE IF custom_ops_already(f.content) THEN AlreadyPatched(f)
  ELSE
    LET c1 == IF In(custom_ops_old, f.content)
              THEN Replace(f.content, custom_ops_old, custom_ops_new)
              ELSE f.content
        m1 == IF In(custom_ops_old, f.content) THEN {"old"} ELSE {}
        c2 == IF In(custom_ops_old2, c1)
              THEN Replace(c1, custom_ops_old2, custom_ops_new2)
              ELSE c1
        m2 == IF In(custom_ops_old2, c1) THEN {"old2"} ELSE {}
    IN WriteBack(f, c2, m1 \cup m2)

patch_mxfp4(f) ==
  IF ~Exists(f) THEN Missing(f)
  ELSE IF ReadRaises(f) THEN ReadError(f)
  ELSE IF In(mxfp4_marker, f.content) THEN AlreadyPatched(f)
  ELSE
    LET c1 == IF reSearch(mxfp4_old_pattern, f.content)
              THEN reSub(mxfp4_old_pattern, mxfp4_new_pattern, f.content)
              ELSE f.content
        m1 == IF reSearch(mxfp4_old_pattern, f.content)
              THEN {"old_pattern"} ELSE {}
    IN WriteBack(f, c1, m1)

patch_w8a8_utils(f) ==
  IF ~Exists(f) THEN Missing(f)
  ELSE IF ReadRaises(f) THEN ReadError(f)
  ELSE IF In(w8a8_marker1, f.content) /\ In(w8a8_marker2, f.content)
       THEN AlreadyPatched(f)
  ELSE
    LET c1 == IF In(w8a8_old, f.content)
              THEN Replace(f.content, w8a8_old, w8a8_new)
              ELSE f.content
        m1 == IF In(w8a8_old, f.content) THEN {"old"} ELSE {}
        c2 == IF In(w8a8_old2, c1)
              THEN Replace(c1, w8a8_old2, w8a8_new2)
              ELSE c1
        m2 == IF In(w8a8_old2, c1) THEN {"old2"} ELSE {}
    IN WriteBack(f, c2, m1 \cup m2)

\* for old_pat, new_pat in fp8_patterns[i..]: ...
RECURSIVE Fp8Loop(_, _, _)
Fp8Loop(i, content, matched) ==
  IF i > Len(fp8_patterns) THEN [content |-> content, matched |-> matched]
  ELSE
    LET old_pat == fp8_patterns[i][1]
        new_pat == fp8_patterns[i][2]
    IN IF /\ In(old_pat, content)
          /\ ~HasHasattr(LastLine(SplitHead(content, old_pat)))
       THEN Fp8Loop(i + 1, Replace(content, old_pat, new_pat),
                    matched \cup {old_pat[1]})
       ELSE Fp8Loop(i + 1, content, matched)

patch_matcher_utils(f) ==
  IF ~Exists(f) THEN Missing(f)
  ELSE IF ReadRaises(f) THEN ReadError(f)
  ELSE IF In(matcher_marker, f.content) THEN AlreadyPatched(f)
  ELSE
    LET c1 == IF In(matcher_old, f.content)
              THEN Replace(f.content, matcher_old, matcher_new)
              ELSE f.content
        m1 == IF In(matcher_old, f.content) THEN {"old"} ELSE {}
        r  == Fp8Loop(1, c1, m1)
    IN WriteBack(f, r.content, r.matched)

\* ------------------------------------------------------------------- main
\* the names main() reports, in call order
Names == <<"_custom_ops.py", "mxfp4.py", "w8a8_utils.py", "matcher_utils.py">>

\* failed = [name for name, success in results if not success]
Failed(res) == {i \in 1..Len(res) : ~res[i][2]}

\* variant: the `if failed` test is lost
MainExit_always_ok(res) == 0

\* variant: `if success` in place of `if not success`
MainExit_inverted(res) == IF {i \in 1..Len(res) : res[i][2]} # {} THEN 1 ELSE 0

\* return 1 if failed else 0
MainExit(res) == IF Failed(res) # {} THEN 1 ELSE 0

\* ------------------------------------------------------------------ state
VARIABLES
  fs,       \* the tree: path -> [exists, content, fault]
  pc,       \* position of main(): the call it is about to make
  results,  \* main's results list of (name, success)
  exit,     \* the process's exit status, -1 while it is running
  runs,     \* number of invocations of the script so far
  outcome,  \* per patch function called in this invocation: what it printed
  io,       \* per path: f.read() / f.write() calls in this invocation
  start,    \* the tree when this invocation began
  prev      \* outcome of the previous invocation

vars == <<fs, pc, results, exit, runs, outcome, io, start, prev>>

Units == 1..4

\* the four target files of the tree, in the order main() patches them
Targets ==
  <<"vllm/_custom_ops.py",
    "vllm/model_executor/layers/quantization/mxfp4.py",
    "vllm/model_executor/layers/quantization/utils/w8a8_utils.py",
    "vllm/compilation/matcher_utils.py">>

\* the text fragments the initial content of each target file is made of
InputFragments ==
  [p \in Paths |->
     CASE p = "vllm/_custom_ops.py" ->
            {custom_ops_old[1], custom_ops_old2[1], custom_ops_marker[1],
             "other text"}
       [] p = "vllm/model_executor/layers/quantization/mxfp4.py" ->
            {mxfp4_old_pattern[1], mxfp4_new_pattern[1], "other text"}
       [] p = "vllm/model_executor/layers/quantization/utils/w8a8_utils.py" ->
            {w8a8_old[1], w8a8_old2[1], w8a8_marker1[1], w8a8_marker2[1],
             "other text"}
       [] OTHER ->
            {matcher_old[1], fp8_patterns[1][1][1], fp8_patterns[2][1][1],
             fp8_patterns[3][1][1], fp8_patterns[1][2][2], "\n"}]

NotCalled == [branch |-> "none", matched |-> {}]

NoIO == [p \in Paths |-> [reads |-> 0, writes |-> 0]]

Init ==
  \E n1 \in 0..MaxTokens :
  \E n2 \in 0..(MaxTokens - n1) :
  \E n3 \in 0..(MaxTokens - n1 - n2) :
  \E n4 \in 0..(MaxTokens - n1 - n2 - n3) :
  \E c1 \in [1..n1 -> InputFragments[Targets[1]]] :
  \E c2 \in [1..n2 -> InputFragments[Targets[2]]] :
  \E c3 \in [1..n3 -> InputFragments[Targets[3]]] :
  \E c4 \in [1..n4 -> InputFragments[Targets[4]]] :
    LET c == <<c1, c2, c3, c4>>
        empty == {k \in Units : Len(c[k]) = 0}
    IN \E missing \in SUBSET empty :
       \E faulty \in SUBSET (Units \ missing) :
       \E kind \in [faulty -> {"read", "write"}] :
         /\ Cardinality(faulty) <= MaxFaults
         /\ fs = [p \in Paths |->
                    LET k == CHOOSE u \in Units : Targets[u] = p
                    IN [exists |-> k \notin missing,
                        content |-> [i \in 1..Len(c[k]) |-> c[k][i]],
                        fault |-> IF k \in faulty THEN kind[k] ELSE "none"]]
         /\ start = fs
         /\ pc = "patch_custom_ops"
         /\ results = <<>>
         /\ exit = -1
         /\ runs = 1
         /\ outcome = [k \in Units |-> NotCalled]
         /\ prev = [k \in Units |-> NotCalled]
         /\ io = NoIO

\* results.append((name, patch_xxx())): the call, its effect on the file at
\* path, and the append; an exception raised by the call leaves main()
\* and ends the process with status 1
Call(k, path, r, next) ==
  /\ fs' = [fs EXCEPT ![path] = r.file]
  /\ io' = [io EXCEPT ![path] = [reads |-> @.reads + r.reads,
                                 writes |-> @.writes + r.writes]]
  /\ outcome' = [outcome EXCEPT ![k] = [branch |-> r.branch,
                                        matched |-> r.matched]]
  /\ IF r.raised
     THEN /\ pc' = "crashed"
          /\ exit' = 1
          /\ results' = results
     ELSE /\ pc' = next
          /\ exit' = exit
          /\ results' = Append(results, <<Names[k], r.ret>>)
  /\ UNCHANGED <<runs, start, prev>>

CallCustomOps ==
  /\ pc = "patch_custom_ops"
  /\ Call(1, custom_ops_filepath, patch_custom_ops(fs[custom_ops_filepath]),
          "patch_mxfp4")

CallMxfp4 ==
  /\ pc = "patch_mxfp4"
  /\ Call(2, mxfp4_filepath, patch_mxfp4(fs[mxfp4_filepath]),
          "patch_w8a8_utils")

CallW8a8Utils ==
  /\ pc = "patch_w8a8_utils"
  /\ Call(3, w8a8_filepath, patch_w8a8_utils(fs[w8a8_filepath]),
          "patch_matcher_utils")

CallMatcherUtils ==
  /\ pc = "patch_matcher_utils"
  /\ Call(4, matcher_filepath, patch_matcher_utils(fs[matcher_filepath]),
          "summary")

\* the summary loop and the return of main(); sys.exit(main())
Summary ==
  /\ pc = "summary"
  /\ exit' = MainExit(results)
  /\ pc' = "done"
  /\ UNCHANGED <<fs, results, runs, outcome, io, start, prev>>

\* the script is invoked again on the tree the previous invocation left
Rerun ==
  /\ pc \in {"done", "crashed"}
  /\ runs < MaxRuns
  /\ runs' = runs + 1
  /\ pc' = "patch_custom_ops"
  /\ results' = <<>>
  /\ exit' = -1
  /\ prev' = outcome
  /\ outcome' = [k \in Units |-> NotCalled]
  /\ io' = NoIO
  /\ start' = fs
  /\ UNCHANGED fs

Next ==
  \/ CallCustomOps
  \/ CallMxfp4
  \/ CallW8a8Utils
  \/ CallMatcherUtils
  \/ Summary
  \/ Rerun

Spec == Init /\ [][Next]_vars

TypeOK ==
  /\ pc \in {"patch_custom_ops", "patch_mxfp4", "patch_w8a8_utils",
             "patch_matcher_utils", "summary", "done", "crashed"}
  /\ exit \in {-1, 0, 1}
  /\ runs \in 1..MaxRuns
  /\ Len(results) <= 4

\* ------------------------------------------------------------ properties
Called(k) == outcome[k].branch # "none"

File(k) == fs[Targets[k]]

StartFile(k) == start[Targets[k]]

\* the already-patched marker of unit k occurs in content
MarkerIn(k, content) ==
  CASE k = 1 -> In(custom_ops_marker, content)
    [] k = 2 -> In(mxfp4_marker, content)
    [] k = 3 -> In(w8a8_marker1, content) /\ In(w8a8_marker2, content)
    [] OTHER -> In(matcher_marker, content)

\* the (search, replacement) rules of unit k
RulesOf(k) ==
  CASE k = 1 -> {<<custom_ops_old, custom_ops_new>>,
                 <<custom_ops_old2, custom_ops_new2>>}
    [] k = 2 -> {<<mxfp4_old_pattern, mxfp4_new_pattern>>}
    [] k = 3 -> {<<w8a8_old, w8a8_new>>, <<w8a8_old2, w8a8_new2>>}
    [] OTHER -> {<<matcher_old, matcher_new>>}
                  \cup {fp8_patterns[i] : i \in 1..Len(fp8_patterns)}

\* C1: for every unit, if the previous run of the unit rewrote its file with
\* at least one rule matched, the next run of the unit takes the
\* already-patched branch and leaves the content as the previous run left it.
C1_SecondRunSkips ==
  \A k \in Units :
    (prev[k].branch = "rewrote" /\ prev[k].matched # {} /\ Called(k))
      => /\ outcome[k].branch = "already"
         /\ File(k).content = StartFile(k).content

\* C2: once a unit has run, no later run of the unit changes the content of
\* its file (nothing is substituted into text an earlier run produced).
C2_NoDoubleApply ==
  \A k \in Units :
    (prev[k].branch # "none" /\ Called(k))
      => File(k).content = StartFile(k).content

C4_FailureIsolated ==
  \A k \in Units :
    (outcome[k].branch = "ioerror" /\ exit # -1)
      => /\ \A j \in Units : j > k => Called(j)
         /\ Len(results) = 4
         /\ ~results[k][2]
         /\ exit # 0

\* C5: when main returns and all four target files exist (no call raised),
\* the exit status is 0, whichever of applied, partly applied, nothing
\* matched and already patched each unit ended in.
C5_WarningsNonFatal ==
  (pc = "done" /\ \A k \in Units : File(k).exists)
    => /\ exit = 0
       /\ \A k \in Units : outcome[k].branch \in {"rewrote", "already"}

C5_Witness ==
  /\ pc = "done"
  /\ exit = 0
  /\ \A k \in Units : File(k).exists
  /\ \E k \in Units : outcome[k].branch = "rewrote" /\ outcome[k].matched = {}
  /\ \E k \in Units : outcome[k].branch = "already"
  /\ outcome[1].branch = "rewrote" /\ Cardinality(outcome[1].matched) = 1

\* C6: in one run a unit reads its target at most once, writes it at most
\* once, and writes it only if at least one of its rules matched.
C6_WriteOnlyIfMatched ==
  \A k \in Units :
    /\ io[Targets[k]].reads <= 1
    /\ io[Targets[k]].writes <= 1
    /\ io[Targets[k]].writes >= 1 => outcome[k].matched # {}

\* C7: a unit called on an absent target, or on a readable target whose
\* content holds the unit's already-patched marker, returns through the
\* skip branch without writing: the target's existence and content are
\* those from before the run.
C7_SkipsLeaveTreeUnchanged ==
  \A k \in Units :
    (/\ Called(k)
     /\ \/ ~StartFile(k).exists
        \/ /\ StartFile(k).fault # "read"
           /\ MarkerIn(k, StartFile(k).content))
      => /\ outcome[k].branch \in {"missing", "already"}
         /\ io[Targets[k]].writes = 0
         /\ File(k) = StartFile(k)

C7_Witness ==
  /\ \E k \in Units : Called(k) /\ ~StartFile(k).exists /\ ~File(k).exists
  /\ \E k \in Units :
       /\ outcome[k].branch = "already"
       /\ \E r \in RulesOf(k) : In(r[1], StartFile(k).content)

\* C8: when a multi-rule unit gets as far as applying its rules and exactly
\* one rule's search text occurs in the file, the file is written and the
\* written content holds that rule's replacement, once for every occurrence
\* of the search text that was there.
C8_RuleIndependence ==
  \A k \in {1, 3, 4} :
    \A r \in RulesOf(k) :
      (/\ outcome[k].branch = "rewrote"
       /\ In(r[1], StartFile(k).content)
       /\ \A q \in RulesOf(k) \ {r} : ~In(q[1], StartFile(k).content))
        => /\ io[Targets[k]].writes = 1
           /\ In(r[2], File(k).content)
           /\ Count(r[2], File(k).content) >= Count(r[1], StartFile(k).content)

\* C9: after patch_matcher_utils has applied its rules, no FP8 op reference
\* is left unwrapped, and none has been wrapped twice that was not wrapped
\* twice before.
C9_WrapOnlyUnwrapped ==
  outcome[4].branch = "rewrote"
    => \A i \in 1..Len(fp8_patterns) :
         LET op == fp8_patterns[i][1]
             wrapped == fp8_patterns[i][2]
             twice == wrapped \o <<wrapped[2]>>
         IN /\ Count(op, File(4).content) = Count(wrapped, File(4).content)
            /\ Count(twice, File(4).content)
                 <= Count(twice, StartFile(4).content)

====
